---- MODULE Spec2Model ----
(***************************************************************************)
(* PrinterStateConnection (src/octoprint/server/util.py): the per-client   *)
(* push session.  Threads call the session's methods; every statement that *)
(* touches shared state or calls a collaborator is one step of the calling *)
(* thread.                                                                 *)
(***************************************************************************)
EXTENDS Integers, Sequences, FiniteSets, TLC

\* ---------------------------------------------------------------- bounds
MaxRecords == 2
MaxFlushes == 2
MaxEmits == 2
MaxHooks == 3
MaxFrames == 4

\* Two sessions: one client's session next to another's.
Sessions == {1, 2}
\* Two threads: every pair of calls of the session can interleave.
Threads == {1, 2}
NoThread == 0

\* The keys sendCurrentData writes into the payload, one per backlog.
Categories == {"temperatures", "logs", "messages"}

\* Caller-supplied state mappings handed to sendCurrentData; the second one
\* carries a key that collides with a backlog key.
ExtraStates == {[state |-> "printing"], [logs |-> <<0>>]}

\* Payloads the bus delivers with an event (None or a value).
Payloads == {"None", "file.gco"}

\* The topics a session subscribes to.
Topics == {"MovieDone", "SlicingStarted", "SlicingDone", "SlicingFailed"}

VARIABLES
    temperatureBacklog,       \* [session -> list]   self._temperatureBacklog
    temperatureBacklogMutex,  \* [session -> holder] self._temperatureBacklogMutex
    logBacklog,
    logBacklogMutex,
    messageBacklog,
    messageBacklogMutex,
    callbacks,                \* [producer -> set of sessions registered as callback]
    listeners,                \* event bus: set of [topic, session, handler]
    wire,                     \* [session -> frames passed to self.send, in order]
    pc,                       \* [thread -> statement it is at]
    locals,                   \* [thread -> locals of the call it executes]
    raised,                   \* [thread -> the call whose exception ended its last call, or ""]
    life,                     \* [session -> which transport hooks have run]
    effects,                  \* [session -> collaborator calls made by its hooks, in order]
    appended,                 \* [session -> [category -> records in the order appended]]
    drained,                  \* [session -> [category -> concatenation of the drained lists]]
    late,                     \* [session -> records whose add call started after on_close returned]
    quiet,                    \* [thread -> no other thread touched the backlogs of its call's session]
    nextRec,                  \* next fresh record
    flushes,                  \* sendCurrentData calls started
    overlap,                  \* [session -> two sendCurrentData calls on it have overlapped]
    emits                     \* other emit / fire calls started

bufVars == <<temperatureBacklog, logBacklog, messageBacklog>>
mutexVars == <<temperatureBacklogMutex, logBacklogMutex, messageBacklogMutex>>
busVars == <<callbacks, listeners>>
histVars == <<appended, drained>>
flushVars == <<flushes, overlap>>
vars == <<temperatureBacklog, temperatureBacklogMutex, logBacklog, logBacklogMutex,
          messageBacklog, messageBacklogMutex, callbacks, listeners, wire, pc,
          locals, raised, life, effects, appended, drained, late, quiet,
          nextRec, flushes, overlap, emits>>

Producers == {"printer", "gcodeManager", "timelapse"}

\* The locals of a call: the receiver (self), the argument (data), the lists
\* sendCurrentData takes out of the backlogs, the position in a hook's list of
\* calls (step) and the callbacks a collaborator's loop still has to call
\* (pending).  fn names the method called; snap is what the backlogs and the
\* connection held when sendCurrentData was called.
NoLocals == [self |-> 0, fn |-> "", data |-> <<>>, temperatures |-> <<>>,
             logs |-> <<>>, messages |-> <<>>, step |-> 0, pending |-> {},
             event |-> "", payload |-> "None", snap |-> <<>>]

\* __init__: empty backlogs, free mutexes, nothing registered.
Init ==
    /\ temperatureBacklog = [s \in Sessions |-> <<>>]
    /\ temperatureBacklogMutex = [s \in Sessions |-> NoThread]
    /\ logBacklog = [s \in Sessions |-> <<>>]
    /\ logBacklogMutex = [s \in Sessions |-> NoThread]
    /\ messageBacklog = [s \in Sessions |-> <<>>]
    /\ messageBacklogMutex = [s \in Sessions |-> NoThread]
    /\ callbacks = [p \in Producers |-> {}]
    /\ listeners = {}
    /\ wire = [s \in Sessions |-> <<>>]
    /\ pc = [t \in Threads |-> "idle"]
    /\ locals = [t \in Threads |-> NoLocals]
    /\ raised = [t \in Threads |-> ""]
    /\ life = [s \in Sessions |-> "created"]
    /\ effects = [s \in Sessions |-> <<>>]
    /\ appended = [s \in Sessions |-> [c \in Categories |-> <<>>]]
    /\ drained = [s \in Sessions |-> [c \in Categories |-> <<>>]]
    /\ late = [s \in Sessions |-> {}]
    /\ quiet = [t \in Threads |-> TRUE]
    /\ nextRec = 1
    /\ flushes = 0
    /\ overlap = [s \in Sessions |-> FALSE]
    /\ emits = 0

\* ------------------------------------------------------- pure operations
ListAppend_front(list, data) == <<data>> \o list

\* list.append(data)
ListAppend(list, data) == Append(list, data)

SwapOut_keeps(list) == [taken |-> list, fresh |-> list]

SwapOut_drops(list) == [taken |-> <<>>, fresh |-> <<>>]

\* x = self._backlog; self._backlog = []: the list taken and the list left.
SwapOut(list) == [taken |-> list, fresh |-> <<>>]

Update_setdefault(data, temperatures, logs, messages) ==
    [k \in (DOMAIN data) \cup Categories |->
        CASE k \in DOMAIN data -> data[k]
          [] k = "temperatures" -> temperatures
          [] k = "logs" -> logs
          [] k = "messages" -> messages]

\* data.update({"temperatures": ..., "logs": ..., "messages": ...}): the three
\* keys are set, overwriting a key of the same name; other keys are kept.
Update(data, temperatures, logs, messages) ==
    [k \in (DOMAIN data) \cup Categories |->
        CASE k = "temperatures" -> temperatures
          [] k = "logs" -> logs
          [] k = "messages" -> messages
          [] OTHER -> data[k]]

Frame_flat(type, payload) == [type |-> type, payload |-> payload]

\* _emit: the object {type: payload} handed to self.send.
Frame(type, payload) == type :> payload

\* ------------------------------------------------------------ primitives
\* `with mutex:` entry: blocks until the lock is free, then holds it.
Acquire(mutex, s, t) ==
    /\ mutex[s] = NoThread
    /\ mutex' = [mutex EXCEPT ![s] = t]

Release_never(mutex, s, t) == mutex' = mutex

\* `with mutex:` exit.
Release(mutex, s, t) == mutex' = [mutex EXCEPT ![s] = NoThread]

\* Threads whose sendCurrentData call on s has seen another thread touch s.
Disturbed(u, s) ==
    [t \in Threads |->
        IF t # u /\ locals[t].fn = "sendCurrentData" /\ locals[t].self = s
        THEN FALSE ELSE quiet[t]]

\* self.send(frame): the frame is written to the connection of s; the write
\* either succeeds or raises in the calling thread.
send(t, s, frame, ok) ==
    /\ wire' = [wire EXCEPT ![s] = Append(@, frame)]
    /\ raised' = [raised EXCEPT ![t] = IF ok THEN "" ELSE "send"]
    /\ quiet' = Disturbed(t, s)

Goto(t, label) == pc' = [pc EXCEPT ![t] = label]

\* No collaborator call of the hooks of s has raised.
AllCallsOk(s) == \A i \in 1..Len(effects[s]) : effects[s][i].ok

\* ------------------------------------------------ addLog/addMessage/addTemperature
\* with mutex: backlog.append(data).  A producer thread calls s.addX(data)
\* with a fresh record and enters the `with` block (first step); it appends
\* and leaves the block, which returns (second step).
AddSteps(t, name, backlog, mutex, cat) ==
    \/ \E s \in Sessions :
          /\ pc[t] = "idle"
          /\ life[s] # "created"
          /\ nextRec <= MaxRecords
          /\ Acquire(mutex, s, t)
          /\ Goto(t, name)
          /\ locals' = [locals EXCEPT ![t] =
                [NoLocals EXCEPT !.self = s, !.fn = name, !.data = nextRec]]
          /\ nextRec' = nextRec + 1
          /\ raised' = [raised EXCEPT ![t] = ""]
          /\ late' = [late EXCEPT ![s] =
                IF life[s] = "closed" /\ AllCallsOk(s)
                THEN @ \cup {nextRec} ELSE @]
          /\ UNCHANGED <<backlog, appended, quiet>>
    \/ /\ pc[t] = name
       /\ LET s == locals[t].self IN
            /\ backlog' = [backlog EXCEPT ![s] = ListAppend(@, locals[t].data)]
            /\ appended' = [appended EXCEPT ![s][cat] = Append(@, locals[t].data)]
            /\ quiet' = Disturbed(t, s)
            /\ Release(mutex, s, t)
       /\ Goto(t, "idle")
       /\ locals' = [locals EXCEPT ![t] = NoLocals]
       /\ UNCHANGED <<nextRec, raised, late>>

addLog(t) ==
    /\ AddSteps(t, "addLog", logBacklog, logBacklogMutex, "logs")
    /\ UNCHANGED <<temperatureBacklog, temperatureBacklogMutex, messageBacklog,
                   messageBacklogMutex, busVars, drained, wire, life, effects,
                   flushVars, emits>>

addMessage_intoLogs(t) ==
    /\ AddSteps(t, "addMessage", logBacklog, logBacklogMutex, "messages")
    /\ UNCHANGED <<temperatureBacklog, temperatureBacklogMutex, messageBacklog,
                   messageBacklogMutex, busVars, drained, wire, life, effects,
                   flushVars, emits>>

addMessage(t) ==
    /\ AddSteps(t, "addMessage", messageBacklog, messageBacklogMutex, "messages")
    /\ UNCHANGED <<temperatureBacklog, temperatureBacklogMutex, logBacklog,
                   logBacklogMutex, busVars, drained, wire, life, effects,
                   flushVars, emits>>

addTemperature(t) ==
    /\ AddSteps(t, "addTemperature", temperatureBacklog, temperatureBacklogMutex,
                "temperatures")
    /\ UNCHANGED <<logBacklog, logBacklogMutex, messageBacklog,
                   messageBacklogMutex, busVars, drained, wire, life, effects,
                   flushVars, emits>>

\* ------------------------------------------------------- sendCurrentData
\* with mutex: x = self._backlog; self._backlog = [].  The thread enters the
\* `with` block (first step); it swaps the list for a fresh one and leaves
\* the block (second step).
DrainSteps(t, backlog, mutex, cat, next) ==
    LET s == locals[t].self IN
    \/ /\ pc[t] = cat \o "_acquire"
       /\ Acquire(mutex, s, t)
       /\ Goto(t, cat \o "_swap")
       /\ UNCHANGED <<backlog, locals, drained, quiet>>
    \/ /\ pc[t] = cat \o "_swap"
       /\ locals' = [locals EXCEPT ![t][cat] = SwapOut(backlog[s]).taken]
       /\ backlog' = [backlog EXCEPT ![s] = SwapOut(backlog[s]).fresh]
       /\ drained' = [drained EXCEPT ![s][cat] = @ \o SwapOut(backlog[s]).taken]
       /\ quiet' = Disturbed(t, s)
       /\ Release(mutex, s, t)
       /\ Goto(t, next)

\* A thread calls s.sendCurrentData(data) and enters the first `with` block.
sendCurrentData_call(t, s) ==
    /\ pc[t] = "idle"
    /\ life[s] # "created"
    /\ flushes < MaxFlushes
    /\ flushes' = flushes + 1
    /\ overlap' = [overlap EXCEPT ![s] =
          @ \/ \E u \in Threads \ {t} :
                  locals[u].fn = "sendCurrentData" /\ locals[u].self = s]
    /\ Acquire(temperatureBacklogMutex, s, t)
    /\ Goto(t, "temperatures_swap")
    /\ locals' = [locals EXCEPT ![t] =
          [NoLocals EXCEPT !.self = s, !.fn = "sendCurrentData",
                           !.snap = [temperatures |-> temperatureBacklog[s],
                                     logs |-> logBacklog[s],
                                     messages |-> messageBacklog[s],
                                     wire |-> wire[s]]]]
    /\ raised' = [raised EXCEPT ![t] = ""]
    /\ quiet' = [quiet EXCEPT ![t] = TRUE]
    /\ UNCHANGED <<bufVars, logBacklogMutex, messageBacklogMutex, busVars,
                   histVars, wire, life, effects, late, nextRec, emits>>

sendCurrentData_temperatures_skiplogs(t) ==
    /\ DrainSteps(t, temperatureBacklog, temperatureBacklogMutex, "temperatures",
                  "messages_acquire")
    /\ UNCHANGED <<logBacklog, logBacklogMutex, messageBacklog,
                   messageBacklogMutex, busVars, appended, wire, raised, life,
                   effects, late, nextRec, flushVars, emits>>

sendCurrentData_temperatures(t) ==
    /\ DrainSteps(t, temperatureBacklog, temperatureBacklogMutex, "temperatures",
                  "logs_acquire")
    /\ UNCHANGED <<logBacklog, logBacklogMutex, messageBacklog,
                   messageBacklogMutex, busVars, appended, wire, raised, life,
                   effects, late, nextRec, flushVars, emits>>

sendCurrentData_logs(t) ==
    /\ DrainSteps(t, logBacklog, logBacklogMutex, "logs", "messages_acquire")
    /\ UNCHANGED <<temperatureBacklog, temperatureBacklogMutex, messageBacklog,
                   messageBacklogMutex, busVars, appended, wire, raised, life,
                   effects, late, nextRec, flushVars, emits>>

sendCurrentData_messages(t) ==
    /\ DrainSteps(t, messageBacklog, messageBacklogMutex, "messages", "current_emit")
    /\ UNCHANGED <<temperatureBacklog, temperatureBacklogMutex, logBacklog,
                   logBacklogMutex, busVars, appended, wire, raised, life,
                   effects, late, nextRec, flushVars, emits>>

\* data.update({...}); self._emit("current", data).  The exception of a failing
\* send is not caught: it ends the call.  The argument data is not read before
\* this statement, so its value is drawn here.
sendCurrentData_emit(t, data) ==
    /\ pc[t] = "current_emit"
    /\ LET s == locals[t].self
           payload == Update(data, locals[t].temperatures, locals[t].logs,
                             locals[t].messages)
       IN \E ok \in BOOLEAN : send(t, s, Frame("current", payload), ok)
    /\ locals' = [locals EXCEPT ![t] = NoLocals]
    /\ Goto(t, "idle")
    /\ UNCHANGED <<bufVars, mutexVars, busVars, histVars, life, effects, late,
                   nextRec, flushVars, emits>>

sendCurrentData(t) ==
    \/ \E s \in Sessions : sendCurrentData_call(t, s)
    \/ sendCurrentData_temperatures(t)
    \/ sendCurrentData_logs(t)
    \/ sendCurrentData_messages(t)
    \/ \E data \in ExtraStates : sendCurrentData_emit(t, data)

\* ------------------------------------------------------ on_open / on_close
Call(target, op, arg, handler) ==
    [target |-> target, op |-> op, arg |-> arg, handler |-> handler]

on_open_calls_specorder ==
    << Call("printer", "registerCallback", "", ""),
       Call("gcodeManager", "registerCallback", "", ""),
       Call("timelapse", "registerCallback", "", ""),
       Call("eventManager", "subscribe", "MovieDone", "_onMovieDone"),
       Call("eventManager", "subscribe", "SlicingStarted", "_onSlicingStarted"),
       Call("eventManager", "subscribe", "SlicingDone", "_onSlicingDone"),
       Call("eventManager", "subscribe", "SlicingFailed", "_onSlicingFailed"),
       Call("timelapse", "notifyCallbacks", "current", ""),
       Call("eventManager", "fire", "ClientOpened", "") >>

\* The collaborator calls of on_open, in statement order.
on_open_calls ==
    << Call("printer", "registerCallback", "", ""),
       Call("gcodeManager", "registerCallback", "", ""),
       Call("timelapse", "registerCallback", "", ""),
       Call("eventManager", "fire", "ClientOpened", ""),
       Call("eventManager", "subscribe", "MovieDone", "_onMovieDone"),
       Call("eventManager", "subscribe", "SlicingStarted", "_onSlicingStarted"),
       Call("eventManager", "subscribe", "SlicingDone", "_onSlicingDone"),
       Call("eventManager", "subscribe", "SlicingFailed", "_onSlicingFailed"),
       Call("timelapse", "notifyCallbacks", "current", "") >>

on_close_calls_specorder ==
    << Call("printer", "unregisterCallback", "", ""),
       Call("gcodeManager", "unregisterCallback", "", ""),
       Call("timelapse", "unregisterCallback", "", ""),
       Call("eventManager", "unsubscribe", "MovieDone", "_onMovieDone"),
       Call("eventManager", "unsubscribe", "SlicingStarted", "_onSlicingStarted"),
       Call("eventManager", "unsubscribe", "SlicingDone", "_onSlicingDone"),
       Call("eventManager", "unsubscribe", "SlicingFailed", "_onSlicingFailed"),
       Call("eventManager", "fire", "ClientClosed", "") >>

on_close_calls_mismatch ==
    << Call("printer", "unregisterCallback", "", ""),
       Call("gcodeManager", "unregisterCallback", "", ""),
       Call("timelapse", "unregisterCallback", "", ""),
       Call("eventManager", "fire", "ClientClosed", ""),
       Call("eventManager", "unsubscribe", "MovieDone", "_onMovieDone"),
       Call("eventManager", "unsubscribe", "SlicingStarted", "_onSlicingStarted"),
       Call("eventManager", "unsubscribe", "SlicingDone", "_onSlicingFailed"),
       Call("eventManager", "unsubscribe", "SlicingFailed", "_onSlicingFailed") >>

\* The collaborator calls of on_close, in statement order.
on_close_calls ==
    << Call("printer", "unregisterCallback", "", ""),
       Call("gcodeManager", "unregisterCallback", "", ""),
       Call("timelapse", "unregisterCallback", "", ""),
       Call("eventManager", "fire", "ClientClosed", ""),
       Call("eventManager", "unsubscribe", "MovieDone", "_onMovieDone"),
       Call("eventManager", "unsubscribe", "SlicingStarted", "_onSlicingStarted"),
       Call("eventManager", "unsubscribe", "SlicingDone", "_onSlicingDone"),
       Call("eventManager", "unsubscribe", "SlicingFailed", "_onSlicingFailed") >>

HookCalls(fn) == IF fn = "on_open" THEN on_open_calls ELSE on_close_calls

Listener(topic, s, handler) == [topic |-> topic, session |-> s, handler |-> handler]

\* What a collaborator does with a call of session s that succeeds.
\* registerCallback/unregisterCallback add and remove the session as a
\* callback of the producer; subscribe/unsubscribe add and remove the exact
\* (topic, handler) pair; fire("ClientOpened"/"ClientClosed") reaches no
\* session, none being subscribed to these topics.
Collaborate(c, s) ==
    /\ callbacks' =
         CASE c.op = "registerCallback" -> [callbacks EXCEPT ![c.target] = @ \cup {s}]
           [] c.op = "unregisterCallback" -> [callbacks EXCEPT ![c.target] = @ \ {s}]
           [] OTHER -> callbacks
    /\ listeners' =
         CASE c.op = "subscribe" -> listeners \cup {Listener(c.arg, s, c.handler)}
           [] c.op = "unsubscribe" -> listeners \ {Listener(c.arg, s, c.handler)}
           [] OTHER -> listeners

\* The transport calls s.on_open(info) once, on a session just constructed.
on_open_call(t, s) ==
    /\ pc[t] = "idle"
    /\ life[s] = "created"
    /\ life' = [life EXCEPT ![s] = "opening"]
    /\ Goto(t, "on_open")
    /\ locals' = [locals EXCEPT ![t] = [NoLocals EXCEPT !.self = s, !.fn = "on_open",
                                                        !.step = 1]]
    /\ raised' = [raised EXCEPT ![t] = ""]
    /\ quiet' = [quiet EXCEPT ![t] = TRUE]
    /\ UNCHANGED <<bufVars, mutexVars, busVars, histVars, wire, effects, late,
                   nextRec, flushVars, emits>>

\* The transport calls s.on_close() once, on a session whose on_open has run.
on_close_call(t, s) ==
    /\ pc[t] = "idle"
    /\ life[s] = "open"
    /\ life' = [life EXCEPT ![s] = "closing"]
    /\ Goto(t, "on_close")
    /\ locals' = [locals EXCEPT ![t] = [NoLocals EXCEPT !.self = s, !.fn = "on_close",
                                                        !.step = 1]]
    /\ raised' = [raised EXCEPT ![t] = ""]
    /\ quiet' = [quiet EXCEPT ![t] = TRUE]
    /\ UNCHANGED <<bufVars, mutexVars, busVars, histVars, wire, effects, late,
                   nextRec, flushVars, emits>>

\* The on_open / on_close invocations on s so far: each has made its first
\* collaborator call (on the printer) or is about to make it.
HooksStarted(s) ==
    Cardinality({i \in 1..Len(effects[s]) : effects[s][i].call.target = "printer"})
    + Cardinality({t \in Threads : /\ pc[t] \in {"on_open", "on_close"}
                                   /\ locals[t].self = s
                                   /\ locals[t].step = 1})

\* s.on_close() is called on a session whose on_close is running or has
\* returned: the method reads no state of the session before making its calls.
on_close_again(t, s) ==
    /\ pc[t] = "idle"
    /\ life[s] \in {"closing", "closed"}
    /\ HooksStarted(s) < MaxHooks
    /\ Goto(t, "on_close")
    /\ locals' = [locals EXCEPT ![t] = [NoLocals EXCEPT !.self = s, !.fn = "on_close",
                                                        !.step = 1]]
    /\ raised' = [raised EXCEPT ![t] = ""]
    /\ quiet' = [quiet EXCEPT ![t] = TRUE]
    /\ UNCHANGED <<bufVars, mutexVars, busVars, histVars, wire, life, effects,
                   late, nextRec, flushVars, emits>>

\* s.on_open(info) is called on a session whose on_close has returned: the
\* method reads no state of the session before making its calls.
on_open_again(t, s) ==
    /\ pc[t] = "idle"
    /\ life[s] = "closed"
    /\ HooksStarted(s) < MaxHooks
    /\ life' = [life EXCEPT ![s] = "opening"]
    /\ Goto(t, "on_open")
    /\ locals' = [locals EXCEPT ![t] = [NoLocals EXCEPT !.self = s, !.fn = "on_open",
                                                        !.step = 1]]
    /\ raised' = [raised EXCEPT ![t] = ""]
    /\ quiet' = [quiet EXCEPT ![t] = TRUE]
    /\ UNCHANGED <<bufVars, mutexVars, busVars, histVars, wire, effects, late,
                   nextRec, flushVars, emits>>

\* The hook of thread t ends (by return or by an exception).
HookReturn(t) ==
    /\ Goto(t, "idle")
    /\ locals' = [locals EXCEPT ![t] = NoLocals]
    /\ life' = [life EXCEPT ![locals[t].self] =
                   IF locals[t].fn = "on_open" THEN "open" ELSE "closed"]

\* One statement of on_open / on_close: the call is made and recorded; when it
\* raises, the exception leaves the hook (no statement of it catches one) and
\* the statements after it are not executed.
HookStep(t, ok) ==
    /\ pc[t] \in {"on_open", "on_close"}
    /\ LET s == locals[t].self
           calls == HookCalls(locals[t].fn)
           c == calls[locals[t].step]
       IN /\ effects' = [effects EXCEPT ![s] =
                            IF ok /\ c.op = "notifyCallbacks" THEN @
                            ELSE Append(@, [call |-> c, ok |-> ok])]
          /\ IF ~ok
             THEN /\ raised' = [raised EXCEPT ![t] = c.target \o "." \o c.op]
                  /\ HookReturn(t)
                  /\ UNCHANGED <<busVars>>
             ELSE /\ Collaborate(c, s)
                  /\ UNCHANGED raised
                  /\ IF c.op = "notifyCallbacks"
                     THEN /\ Goto(t, "notifyCallbacks")
                          /\ locals' = [locals EXCEPT ![t].pending = callbacks["timelapse"]]
                          /\ UNCHANGED life
                     ELSE IF locals[t].step = Len(calls)
                     THEN HookReturn(t)
                     ELSE /\ locals' = [locals EXCEPT ![t].step = @ + 1]
                          /\ UNCHANGED <<pc, life>>
    /\ UNCHANGED <<bufVars, mutexVars, histVars, wire, late, quiet, nextRec,
                   flushVars, emits>>

\* on_message(message): pass.  The transport calls s.on_message(message)
\* (first step); the method returns (second step).
on_message(t) ==
    /\ \/ \E s \in Sessions, message \in Payloads :
             /\ pc[t] = "idle"
             /\ life[s] # "created"
             /\ Goto(t, "on_message")
             /\ locals' = [locals EXCEPT ![t] =
                   [NoLocals EXCEPT !.self = s, !.fn = "on_message", !.data = message]]
             /\ raised' = [raised EXCEPT ![t] = ""]
       \/ /\ pc[t] = "on_message"
          /\ Goto(t, "idle")
          /\ locals' = [locals EXCEPT ![t] = NoLocals]
          /\ UNCHANGED raised
    /\ UNCHANGED <<bufVars, mutexVars, busVars, histVars, wire, life, effects,
                   late, quiet, nextRec, flushVars, emits>>

emit_nowrite(t, s, type, payload, ok) ==
    /\ raised' = [raised EXCEPT ![t] = IF ok THEN "" ELSE "send"]
    /\ UNCHANGED <<wire, quiet>>

\* self._emit(type, payload)
emit(t, s, type, payload, ok) == send(t, s, Frame(type, payload), ok)

sendHistoryData(t, s, data, ok) == emit(t, s, "history", data, ok)

sendUpdateTrigger(t, s, type, payload, ok) ==
    emit(t, s, "updateTrigger", [type |-> type, payload |-> payload], ok)

sendFeedbackCommandOutput(t, s, name, output, ok) ==
    emit(t, s, "feedbackCommandOutput", [name |-> name, output |-> output], ok)

sendTimelapseConfig(t, s, timelapseConfig, ok) ==
    emit(t, s, "timelapse", timelapseConfig, ok)

notifyCallbacks_selfonly(t, ok) ==
    /\ pc[t] = "notifyCallbacks"
    /\ LET s == locals[t].self
           c == on_open_calls[locals[t].step]
       IN /\ sendTimelapseConfig(t, s, "current", ok)
          /\ effects' = [effects EXCEPT ![s] = Append(@, [call |-> c, ok |-> ok])]
          /\ HookReturn(t)
    /\ UNCHANGED <<bufVars, mutexVars, busVars, histVars, late, nextRec,
                   flushVars, emits>>

\* octoprint.timelapse.notifyCallbacks(current): sendTimelapseConfig is called
\* on every registered callback; an exception leaves the loop and on_open.
\* The call is recorded when it ends, as having raised or not.
notifyCallbacks(t, ok) ==
    /\ pc[t] = "notifyCallbacks"
    /\ LET s == locals[t].self
           c == on_open_calls[locals[t].step]
           done == [effects EXCEPT ![s] = Append(@, [call |-> c, ok |-> ok])]
       IN IF locals[t].pending = {}
          THEN /\ ok
               /\ effects' = done
               /\ HookReturn(t)
               /\ UNCHANGED <<wire, raised, quiet>>
          ELSE \E cb \in locals[t].pending :
                 /\ sendTimelapseConfig(t, cb, "current", ok)
                 /\ IF ok /\ locals[t].pending # {cb}
                    THEN /\ locals' = [locals EXCEPT ![t].pending = @ \ {cb}]
                         /\ UNCHANGED <<pc, life, effects>>
                    ELSE /\ effects' = done
                         /\ HookReturn(t)
    /\ UNCHANGED <<bufVars, mutexVars, busVars, histVars, late, nextRec,
                   flushVars, emits>>

\* The bus handlers of a session.
onMovieDone(t, s, event, payload, ok) ==
    sendUpdateTrigger(t, s, "timelapseFiles", "None", ok)

onSlicingStarted(t, s, event, payload, ok) ==
    sendUpdateTrigger(t, s, "slicingStarted", payload, ok)

onSlicingDone_asFailed(t, s, event, payload, ok) ==
    sendUpdateTrigger(t, s, "slicingFailed", payload, ok)

onSlicingDone(t, s, event, payload, ok) ==
    sendUpdateTrigger(t, s, "slicingDone", payload, ok)

onSlicingFailed(t, s, event, payload, ok) ==
    sendUpdateTrigger(t, s, "slicingFailed", payload, ok)

Handle(t, l, event, payload, ok) ==
    CASE l.handler = "_onMovieDone" -> onMovieDone(t, l.session, event, payload, ok)
      [] l.handler = "_onSlicingStarted" -> onSlicingStarted(t, l.session, event, payload, ok)
      [] l.handler = "_onSlicingDone" -> onSlicingDone(t, l.session, event, payload, ok)
      [] l.handler = "_onSlicingFailed" -> onSlicingFailed(t, l.session, event, payload, ok)

fire_call_first(t, event, payload) ==
    /\ pc[t] = "idle"
    /\ emits < MaxEmits
    /\ emits' = emits + 1
    /\ {l \in listeners : l.topic = event} # {}
    /\ Goto(t, "fire")
    /\ locals' = [locals EXCEPT ![t] =
          [NoLocals EXCEPT !.fn = "fire", !.event = event, !.payload = payload,
                           !.pending = {CHOOSE l \in listeners : l.topic = event}]]
    /\ raised' = [raised EXCEPT ![t] = ""]
    /\ quiet' = [quiet EXCEPT ![t] = TRUE]
    /\ UNCHANGED <<bufVars, mutexVars, busVars, histVars, wire, life, effects,
                   late, nextRec, flushVars>>

\* eventManager.fire(event, payload) by a publishing thread: the handlers
\* subscribed to the event are called one after the other.
fire_call(t, event, payload) ==
    /\ pc[t] = "idle"
    /\ emits < MaxEmits
    /\ emits' = emits + 1
    /\ {l \in listeners : l.topic = event} # {}
    /\ Goto(t, "fire")
    /\ locals' = [locals EXCEPT ![t] =
          [NoLocals EXCEPT !.fn = "fire", !.event = event, !.payload = payload,
                           !.pending = {l \in listeners : l.topic = event}]]
    /\ raised' = [raised EXCEPT ![t] = ""]
    /\ quiet' = [quiet EXCEPT ![t] = TRUE]
    /\ UNCHANGED <<bufVars, mutexVars, busVars, histVars, wire, life, effects,
                   late, nextRec, flushVars>>

fire_deliver(t, ok) ==
    /\ pc[t] = "fire"
    /\ \E l \in locals[t].pending :
          /\ Handle(t, l, locals[t].event, locals[t].payload, ok)
          /\ IF ok /\ locals[t].pending # {l}
             THEN /\ locals' = [locals EXCEPT ![t].pending = @ \ {l}]
                  /\ UNCHANGED pc
             ELSE /\ locals' = [locals EXCEPT ![t] = NoLocals]
                  /\ Goto(t, "idle")
    /\ UNCHANGED <<bufVars, mutexVars, busVars, histVars, life, effects, late,
                   nextRec, flushVars, emits>>

\* A producer calls one of the pass-through emitters of s.
EmitCall(t, s, ok) ==
    /\ pc[t] = "idle"
    /\ life[s] # "created"
    /\ emits < MaxEmits
    /\ emits' = emits + 1
    /\ \/ sendHistoryData(t, s, "history", ok)
       \/ \E p \in Payloads : sendUpdateTrigger(t, s, "gcodeFiles", p, ok)
       \/ sendFeedbackCommandOutput(t, s, "cmd", "out", ok)
       \/ sendTimelapseConfig(t, s, "current", ok)
    /\ locals' = [locals EXCEPT ![t] = NoLocals]
    /\ UNCHANGED <<bufVars, mutexVars, busVars, histVars, pc, life, effects,
                   late, nextRec, flushVars>>

\* ------------------------------------------------------- specifications
Hooks(t) ==
    \/ \E s \in Sessions : on_open_call(t, s)
    \/ \E s \in Sessions : on_close_call(t, s)
    \/ \E ok \in BOOLEAN : HookStep(t, ok)
    \/ \E ok \in BOOLEAN : notifyCallbacks(t, ok)

Buffers(t) ==
    \/ addLog(t)
    \/ addMessage(t)
    \/ addTemperature(t)
    \/ sendCurrentData(t)

Emitters(t) ==
    \/ \E s \in Sessions, ok \in BOOLEAN : EmitCall(t, s, ok)
    \/ \E e \in Topics, p \in Payloads : fire_call(t, e, p)
    \/ \E ok \in BOOLEAN : fire_deliver(t, ok)

\* The sessions that are open at the start of the runs about the backlogs.
Connected == {1}

\* The state after the sessions of Connected have been opened, no call
\* failing: each is registered and subscribed and has been sent the timelapse
\* configuration; the other sessions are constructed and not yet opened.
OpenedWire(s) ==
    [i \in 1..Cardinality({c \in Connected : c >= s}) |-> Frame("timelapse", "current")]

InitOpen ==
    /\ temperatureBacklog = [s \in Sessions |-> <<>>]
    /\ temperatureBacklogMutex = [s \in Sessions |-> NoThread]
    /\ logBacklog = [s \in Sessions |-> <<>>]
    /\ logBacklogMutex = [s \in Sessions |-> NoThread]
    /\ messageBacklog = [s \in Sessions |-> <<>>]
    /\ messageBacklogMutex = [s \in Sessions |-> NoThread]
    /\ callbacks = [p \in Producers |-> Connected]
    /\ listeners = {Listener(on_open_calls[i].arg, s, on_open_calls[i].handler) :
                       i \in {j \in 1..Len(on_open_calls) :
                                 on_open_calls[j].op = "subscribe"},
                       s \in Connected}
    /\ wire = [s \in Sessions |-> IF s \in Connected THEN OpenedWire(s) ELSE <<>>]
    /\ pc = [t \in Threads |-> "idle"]
    /\ locals = [t \in Threads |-> NoLocals]
    /\ raised = [t \in Threads |-> ""]
    /\ life = [s \in Sessions |-> IF s \in Connected THEN "open" ELSE "created"]
    /\ effects = [s \in Sessions |->
                    IF s \in Connected
                    THEN [i \in 1..Len(on_open_calls) |->
                             [call |-> on_open_calls[i], ok |-> TRUE]]
                    ELSE <<>>]
    /\ appended = [s \in Sessions |-> [c \in Categories |-> <<>>]]
    /\ drained = [s \in Sessions |-> [c \in Categories |-> <<>>]]
    /\ late = [s \in Sessions |-> {}]
    /\ quiet = [t \in Threads |-> TRUE]
    /\ nextRec = 1
    /\ flushes = 0
    /\ overlap = [s \in Sessions |-> FALSE]
    /\ emits = 0

\* Producer threads append and flush on open sessions.
Next == \E t \in Threads : Buffers(t)

Spec == InitOpen /\ [][Next]_vars

\* The transport opens and closes the sessions, each hook on either thread.
NextLifecycle == \E t \in Threads : Hooks(t)

SpecLifecycle == Init /\ [][NextLifecycle]_vars

\* The transport closes a connected session while producers append and flush.
Close(t) ==
    \/ \E s \in Sessions : on_close_call(t, s)
    \/ \E ok \in BOOLEAN : HookStep(t, ok)

NextClose == \E t \in Threads : Buffers(t) \/ Close(t)

SpecClose == InitOpen /\ [][NextClose]_vars

\* Producers and the bus write to a connected session.
NextEmit == \E t \in Threads : Emitters(t)

SpecEmit == InitOpen /\ [][NextEmit]_vars

\* The transport closes a connected session and calls its hooks again: a
\* second on_close, or an on_open after the on_close.
Rehook(t) ==
    \/ \E s \in Sessions : on_close_again(t, s)
    \/ \E s \in Sessions : on_open_again(t, s)
    \/ \E ok \in BOOLEAN : notifyCallbacks(t, ok)

NextRehook == \E t \in Threads : Close(t) \/ Rehook(t)

SpecRehook == InitOpen /\ [][NextRehook]_vars

\* The state after every session has been opened, one after the other in
\* the order of Sessions, no call failing: the timelapse configuration sent
\* at each on_open has gone to the sessions registered by then.
InitAllOpen ==
    /\ temperatureBacklog = [s \in Sessions |-> <<>>]
    /\ temperatureBacklogMutex = [s \in Sessions |-> NoThread]
    /\ logBacklog = [s \in Sessions |-> <<>>]
    /\ logBacklogMutex = [s \in Sessions |-> NoThread]
    /\ messageBacklog = [s \in Sessions |-> <<>>]
    /\ messageBacklogMutex = [s \in Sessions |-> NoThread]
    /\ callbacks = [p \in Producers |-> Sessions]
    /\ listeners = {Listener(on_open_calls[i].arg, s, on_open_calls[i].handler) :
                       i \in {j \in 1..Len(on_open_calls) :
                                 on_open_calls[j].op = "subscribe"},
                       s \in Sessions}
    /\ wire = [s \in Sessions |->
                  [i \in 1..Cardinality({c \in Sessions : c >= s}) |->
                      Frame("timelapse", "current")]]
    /\ pc = [t \in Threads |-> "idle"]
    /\ locals = [t \in Threads |-> NoLocals]
    /\ raised = [t \in Threads |-> ""]
    /\ life = [s \in Sessions |-> "open"]
    /\ effects = [s \in Sessions |->
                    [i \in 1..Len(on_open_calls) |->
                        [call |-> on_open_calls[i], ok |-> TRUE]]]
    /\ appended = [s \in Sessions |-> [c \in Categories |-> <<>>]]
    /\ drained = [s \in Sessions |-> [c \in Categories |-> <<>>]]
    /\ late = [s \in Sessions |-> {}]
    /\ quiet = [t \in Threads |-> TRUE]
    /\ nextRec = 1
    /\ flushes = 0
    /\ overlap = [s \in Sessions |-> FALSE]
    /\ emits = 0

\* SlicingStarted events are published while the transport closes sessions;
\* the writes of the handlers succeed.
Publish(t) ==
    \/ \E p \in Payloads : fire_call(t, "SlicingStarted", p)
    \/ fire_deliver(t, TRUE)

NextBus == \E t \in Threads : Publish(t) \/ Close(t)

SpecBus == InitAllOpen /\ [][NextBus]_vars

\* Producers append records and call the pass-through emitters of the connected
\* session while the transport hands it incoming messages.
PassThrough(t) ==
    \/ addLog(t)
    \/ addMessage(t)
    \/ addTemperature(t)
    \/ \E s \in Sessions, ok \in BOOLEAN : EmitCall(t, s, ok)
    \/ on_message(t)

NextPass == \E t \in Threads : PassThrough(t)

SpecPass == InitOpen /\ [][NextPass]_vars

\* The operations that write to the connection of the connected session:
\* the flush, the pass-through emitters and the bus handlers.
Writers(t) ==
    \/ addLog(t)
    \/ sendCurrentData(t)
    \/ Emitters(t)

\* One thread makes the calls, one after the other, until the connection has
\* been written MaxFrames frames.
NextWire ==
    /\ \A s \in Sessions : Len(wire[s]) < MaxFrames
    /\ Writers(1)

SpecWire == InitOpen /\ [][NextWire]_vars

\* Two open sessions: one thread appends and flushes on either of them while
\* a second producer thread appends log records to either of them.
NextOwn == Buffers(1) \/ addLog(2)

SpecOwn == InitAllOpen /\ [][NextOwn]_vars

\* Two threads append log records and flush on the connected session; a
\* thread that can take a step eventually takes one (it is scheduled, and a
\* lock that stays free is acquired).
LogFlush(t) == addLog(t) \/ sendCurrentData(t)

NextLive == \E t \in Threads : LogFlush(t)

SpecLive == InitOpen /\ [][NextLive]_vars /\ \A t \in Threads : WF_vars(LogFlush(t))

\* ----------------------------------------------------------- properties
Backlog(s, cat) ==
    CASE cat = "temperatures" -> temperatureBacklog[s]
      [] cat = "logs" -> logBacklog[s]
      [] cat = "messages" -> messageBacklog[s]

Mutex(s, cat) ==
    CASE cat = "temperatures" -> temperatureBacklogMutex[s]
      [] cat = "logs" -> logBacklogMutex[s]
      [] cat = "messages" -> messageBacklogMutex[s]

IsCurrent(frame) == DOMAIN frame = {"current"}

\* The records of category cat in the "current" frames of a sequence of
\* frames, in the order written.
RECURSIVE Delivered(_, _)
Delivered(frames, cat) ==
    IF frames = <<>> THEN <<>>
    ELSE (IF IsCurrent(Head(frames)) THEN Head(frames)["current"][cat] ELSE <<>>)
         \o Delivered(Tail(frames), cat)

Pos(seq, x) == CHOOSE i \in 1..Len(seq) : seq[i] = x

\* seq lists elements of ref, each once, in the order they have in ref.
InOrderOf(seq, ref) ==
    /\ \A p \in 1..Len(seq) : \E i \in 1..Len(ref) : ref[i] = seq[p]
    /\ \A p, q \in 1..Len(seq) : p < q => Pos(ref, seq[p]) < Pos(ref, seq[q])

\* C1: for every backlog of every session, the lists drained from it so far,
\* concatenated in drain order and followed by its current contents, are the
\* records appended to it in the order the appends took effect: no record is
\* lost, none is duplicated, and the order is kept.
C1_NoLossNoDup ==
    \A s \in Sessions, cat \in Categories :
        drained[s][cat] \o Backlog(s, cat) = appended[s][cat]

\* A backlog that was drained and has been appended to again while a flush
\* is under way.
C1_Witness ==
    \E s \in Sessions, cat \in Categories :
        /\ Len(drained[s][cat]) >= 1
        /\ Len(Backlog(s, cat)) >= 1
        /\ \E t \in Threads : locals[t].fn = "sendCurrentData"

\* C5 as stated: in every state, for every session and category, the records
\* written in "current" frames appear in the order they were appended,
\* across frames and within a frame.
C5_AppendOrderOnWire ==
    \A s \in Sessions, cat \in Categories :
        InOrderOf(Delivered(wire[s], cat), appended[s][cat])

\* C5 amended: the same, for every session on which no two sendCurrentData
\* calls have overlapped.
C5_AppendOrderIfFlushesSerial ==
    \A s \in Sessions, cat \in Categories :
        ~overlap[s] => InOrderOf(Delivered(wire[s], cat), appended[s][cat])

\* Two records of one category have been written in two different frames by
\* flushes that did not overlap.
C5_Witness ==
    \E s \in Sessions, cat \in Categories :
        /\ ~overlap[s]
        /\ Len(Delivered(wire[s], cat)) >= 2
        /\ \E i \in 1..Len(wire[s]) :
              IsCurrent(wire[s][i]) /\ Len(wire[s][i]["current"][cat]) = 1

\* C6: a thread holds a backlog mutex only inside the `with` block of that
\* backlog (about to append, or about to swap the list); in particular a
\* thread that is writing to the connection holds none.
C6_NoLockDuringIO ==
    \A s \in Sessions, t \in Threads :
        /\ temperatureBacklogMutex[s] = t =>
              pc[t] \in {"addTemperature", "temperatures_swap"} /\ locals[t].self = s
        /\ logBacklogMutex[s] = t =>
              pc[t] \in {"addLog", "logs_swap"} /\ locals[t].self = s
        /\ messageBacklogMutex[s] = t =>
              pc[t] \in {"addMessage", "messages_swap"} /\ locals[t].self = s
        /\ pc[t] = "current_emit" =>
              \A cat \in Categories : Mutex(s, cat) # t

\* A thread is about to write its frame while the other thread holds a mutex
\* of the same session.
C6_Witness ==
    \E t, u \in Threads, cat \in Categories :
        /\ pc[t] = "current_emit"
        /\ Mutex(locals[t].self, cat) = u

\* C9: a sendCurrentData call during which no other thread touched the
\* session's backlogs or connection writes exactly one frame, a "current"
\* frame whose temperatures, logs and messages are the three backlogs as they
\* were at the call, in order, together with every other key of extraState,
\* and all three backlogs are empty when it returns.
C9_FlushAlone ==
    [][\A t \in Threads :
          (pc[t] = "current_emit" /\ pc'[t] = "idle" /\ quiet[t]) =>
             LET s == locals[t].self
                 snap == locals[t].snap
                 frame == wire'[s][Len(wire'[s])]
             IN /\ Len(wire'[s]) = Len(snap.wire) + 1
                /\ SubSeq(wire'[s], 1, Len(snap.wire)) = snap.wire
                /\ IsCurrent(frame)
                /\ frame["current"]["temperatures"] = snap.temperatures
                /\ frame["current"]["logs"] = snap.logs
                /\ frame["current"]["messages"] = snap.messages
                /\ \E data \in ExtraStates :
                      /\ DOMAIN frame["current"] = Categories \cup DOMAIN data
                      /\ \A k \in (DOMAIN data) \ Categories :
                            frame["current"][k] = data[k]
                /\ temperatureBacklog'[s] = <<>>
                /\ logBacklog'[s] = <<>>
                /\ messageBacklog'[s] = <<>>]_vars

\* A "current" frame carrying every record appended, two or more of them
\* temperatures, and the caller's state, with the backlogs empty.
C9_Witness ==
    \E s \in Sessions : \E i \in 1..Len(wire[s]) :
        /\ IsCurrent(wire[s][i])
        /\ Len(wire[s][i]["current"]["temperatures"]) >= 2
        /\ wire[s][i]["current"]["logs"] = <<>>
        /\ "state" \in DOMAIN wire[s][i]["current"]
        /\ \A cat \in Categories : Backlog(s, cat) = <<>>

\* The calls made by the on_open (on_close) of s so far, in order.
IsOpenCall(c) ==
    \/ c.op \in {"registerCallback", "subscribe", "notifyCallbacks"}
    \/ c.op = "fire" /\ c.arg = "ClientOpened"

OpenTrace(s) == SelectSeq(effects[s], LAMBDA e : IsOpenCall(e.call))
CloseTrace(s) == SelectSeq(effects[s], LAMBDA e : ~IsOpenCall(e.call))

Ranked(trace, Rank(_)) ==
    \A i, j \in 1..Len(trace) : i < j => Rank(trace[i].call) <= Rank(trace[j].call)

\* The calls every on_close has to make: three unregistrations, four
\* unsubscriptions and the ClientClosed event.
CleanupSteps ==
    {[target |-> p, op |-> "unregisterCallback", arg |-> ""] : p \in Producers}
    \cup {[target |-> "eventManager", op |-> "unsubscribe", arg |-> e] : e \in Topics}
    \cup {[target |-> "eventManager", op |-> "fire", arg |-> "ClientClosed"]}

Attempted(s) ==
    {[target |-> CloseTrace(s)[i].call.target, op |-> CloseTrace(s)[i].call.op,
      arg |-> CloseTrace(s)[i].call.arg] : i \in 1..Len(CloseTrace(s))}

Registered(s) == {p \in Producers : s \in callbacks[p]}
Subscribed(s) == {l \in listeners : l.session = s}

\* C2: once on_close has ended on a session, every cleanup step has been
\* attempted, whichever of them raised.
C2_EveryCleanupStepAttempted ==
    \A s \in Sessions : life[s] = "closed" => CleanupSteps \subseteq Attempted(s)

\* C3: no call of a thread ends with the exception of a failing connection
\* write.
C3_SendFailureNotPropagated ==
    \A t \in Threads : raised[t] # "send"

\* C4: a record whose add call started after on_close returned is in no
\* frame written to the connection.
C4_LateRecordsNeverWritten ==
    \A s \in Sessions, cat \in Categories :
        \A i \in 1..Len(Delivered(wire[s], cat)) :
            Delivered(wire[s], cat)[i] \notin late[s]

RankSpecOpen(c) ==
    CASE c.op = "registerCallback" -> 1
      [] c.op = "subscribe" -> 2
      [] c.op = "notifyCallbacks" -> 3
      [] c.op = "fire" -> 4

RankCodeOpen(c) ==
    CASE c.op = "registerCallback" -> 1
      [] c.op = "fire" -> 2
      [] c.op = "subscribe" -> 3
      [] c.op = "notifyCallbacks" -> 4

\* C7 as stated: the calls of on_open are made in the order registrations,
\* subscriptions, timelapse configuration, ClientOpened.
C7_OpenOrderAsStated ==
    \A s \in Sessions : Ranked(OpenTrace(s), RankSpecOpen)

\* C7 amended: the calls of on_open are made in the order registrations,
\* ClientOpened, subscriptions, timelapse configuration; an on_open in which
\* no call raises makes three registrations, fires ClientOpened once, makes
\* four subscriptions and has the timelapse configuration sent to the session.
C7_OpenOrder ==
    \A s \in Sessions :
        /\ Ranked(OpenTrace(s), RankCodeOpen)
        /\ (life[s] = "open" /\ AllCallsOk(s)) =>
              /\ {OpenTrace(s)[i].call.target : i \in 1..3} = Producers
              /\ OpenTrace(s)[4].call.arg = "ClientOpened"
              /\ {OpenTrace(s)[i].call.arg : i \in 5..8} = Topics
              /\ Len(OpenTrace(s)) = 9
              /\ \E i \in 1..Len(wire[s]) : DOMAIN wire[s][i] = {"timelapse"}

\* A session whose on_open has returned, every call made.
C7_Witness ==
    \E s \in Sessions, t \in Threads :
        /\ life[s] = "open" /\ AllCallsOk(s) /\ Len(OpenTrace(s)) = 9
        /\ raised[t] = "" /\ pc[t] = "idle"

RankSpecClose(c) ==
    CASE c.op = "unregisterCallback" -> 1
      [] c.op = "unsubscribe" -> 2
      [] c.op = "fire" -> 3

RankCodeClose(c) ==
    CASE c.op = "unregisterCallback" -> 1
      [] c.op = "fire" -> 2
      [] c.op = "unsubscribe" -> 3

\* C8 as stated: the calls of on_close are made in the order
\* unregistrations, unsubscriptions, ClientClosed (no unsubscription is made
\* after ClientClosed has been fired).
C8_CloseOrderAsStated ==
    \A s \in Sessions : Ranked(CloseTrace(s), RankSpecClose)

\* C8 amended: the calls of on_close are made in the order unregistrations,
\* ClientClosed, unsubscriptions; when ClientClosed is fired the session is
\* unregistered from every producer whose unregistration did not raise and
\* no unsubscription has been made yet.
C8_CloseOrder ==
    \A s \in Sessions :
        /\ Ranked(CloseTrace(s), RankCodeClose)
        /\ \A i \in 1..Len(CloseTrace(s)) :
              CloseTrace(s)[i].call.op = "fire" =>
                 /\ i = 4
                 /\ \A j \in 1..3 : CloseTrace(s)[j].call.op = "unregisterCallback"

\* A session whose on_close has returned, every call made.
C8_Witness ==
    \E s \in Sessions :
        life[s] = "closed" /\ AllCallsOk(s) /\ Len(CloseTrace(s)) = 8

\* C10: after an on_open and an on_close of a session in which no call raised,
\* no producer holds the session as a callback and the bus holds no
\* (topic, handler) subscription of the session.
C10_TeardownSymmetric ==
    \A s \in Sessions :
        (life[s] = "closed" /\ AllCallsOk(s)) =>
            Registered(s) = {} /\ Subscribed(s) = {}

\* A session opened and closed with no call raising, while the other session
\* is still registered and subscribed.
C10_Witness ==
    \E s, o \in Sessions :
        /\ life[s] = "closed" /\ AllCallsOk(s)
        /\ Len(OpenTrace(s)) = 9 /\ Len(CloseTrace(s)) = 8
        /\ o # s /\ Registered(o) = Producers /\ Cardinality(Subscribed(o)) = 4

\* The calls op made on target by the hooks of s so far.
Calls(s, target, op) ==
    Cardinality({i \in 1..Len(effects[s]) :
                    effects[s][i].call.target = target /\ effects[s][i].call.op = op})

\* C11: over the hook invocations made on a session so far, whichever they
\* are, registerCallback and unregisterCallback have each been called at most
\* once on each producer, and no registration or subscription has been made
\* after a call of on_close.
C11_OncePerLifetime ==
    \A s \in Sessions :
        /\ \A p \in Producers :
              /\ Calls(s, p, "registerCallback") <= 1
              /\ Calls(s, p, "unregisterCallback") <= 1
        /\ \A i, j \in 1..Len(effects[s]) :
              (i < j /\ ~IsOpenCall(effects[s][i].call)) =>
                  effects[s][j].call.op \notin {"registerCallback", "subscribe"}

\* The type each topic's handler is to name in its frame.
TriggerType(topic) ==
    CASE topic = "MovieDone" -> "timelapseFiles"
      [] topic = "SlicingStarted" -> "slicingStarted"
      [] topic = "SlicingDone" -> "slicingDone"
      [] topic = "SlicingFailed" -> "slicingFailed"

UpdateTrigger(type, payload) == Frame("updateTrigger", [type |-> type, payload |-> payload])

HasFrame(s, frame) == \E i \in 1..Len(wire[s]) : wire[s][i] = frame

\* C12 as stated: each firing of a bus handler of a session writes exactly
\* one "updateTrigger" frame to that session's connection, naming the type of
\* the event's topic and carrying the payload delivered with the event.
C12_PayloadCarried ==
    [][\A t \in Threads :
          (pc[t] = "fire" /\ locals'[t] # locals[t]) =>
             \E l \in locals[t].pending :
                wire' = [wire EXCEPT ![l.session] =
                            Append(@, UpdateTrigger(TriggerType(l.topic),
                                                    locals[t].payload))]]_vars

\* C12 amended: each firing of a bus handler of a session writes exactly one
\* "updateTrigger" frame to that session's connection, naming the type of the
\* event's topic; the frame of SlicingStarted, SlicingDone and SlicingFailed
\* carries the payload delivered with the event, the frame of MovieDone
\* carries no payload (None).
C12_TriggerPerEvent ==
    [][\A t \in Threads :
          (pc[t] = "fire" /\ locals'[t] # locals[t]) =>
             \E l \in locals[t].pending :
                wire' = [wire EXCEPT ![l.session] =
                            Append(@, UpdateTrigger(TriggerType(l.topic),
                                      IF l.topic = "MovieDone" THEN "None"
                                      ELSE locals[t].payload))]]_vars

\* A session has written the frame of a MovieDone event and the frame of a
\* slicing event that was delivered with a payload.
C12_Witness ==
    \E s \in Sessions :
        /\ HasFrame(s, UpdateTrigger("timelapseFiles", "None"))
        /\ \E e \in Topics \ {"MovieDone"} :
              HasFrame(s, UpdateTrigger(TriggerType(e), "file.gco"))

\* The "updateTrigger" frames of the given type written to the connection of s.
Triggers(s, type) ==
    Cardinality({i \in 1..Len(wire[s]) :
                    /\ DOMAIN wire[s][i] = {"updateTrigger"}
                    /\ wire[s][i]["updateTrigger"].type = type})

\* The publishes under way that have still to call a handler of s.
InFlight(s) ==
    Cardinality({t \in Threads : /\ pc[t] = "fire"
                                 /\ \E l \in locals[t].pending : l.session = s})

PassTags == {"history", "updateTrigger", "feedbackCommandOutput", "timelapse"}

\* wire' is wire with one frame of one of the tags appended for session s.
OneWrite(s, tags) ==
    /\ Len(wire'[s]) = Len(wire[s]) + 1
    /\ SubSeq(wire'[s], 1, Len(wire[s])) = wire[s]
    /\ \E tag \in tags : DOMAIN wire'[s][Len(wire'[s])] = {tag}
    /\ \A o \in Sessions \ {s} : wire'[o] = wire[o]

\* C14: a call of sendHistoryData, sendUpdateTrigger, sendFeedbackCommandOutput
\* or sendTimelapseConfig writes exactly one frame to the connection of its
\* session and leaves every backlog and mutex as it was; a call of on_message
\* writes nothing and leaves the backlogs, the mutexes, the registrations and
\* the subscriptions of every session as they were.
C14_PassThrough ==
    [][/\ (emits' = emits + 1) =>
             /\ \E s \in Sessions : OneWrite(s, PassTags)
             /\ UNCHANGED <<bufVars, mutexVars>>
       /\ \A t \in Threads :
             (pc'[t] # pc[t] /\ "on_message" \in {pc[t], pc'[t]}) =>
                UNCHANGED <<bufVars, mutexVars, busVars, wire>>]_vars

\* A session with a record in a backlog has written a history frame and is
\* being handed an incoming message.
C14_Witness ==
    \E s \in Sessions, t \in Threads :
        /\ Len(logBacklog[s]) >= 1
        /\ HasFrame(s, Frame("history", "history"))
        /\ pc[t] = "on_message" /\ locals[t].self = s

\* The frame tags of the wire format.
Tags == {"current", "history", "updateTrigger", "feedbackCommandOutput", "timelapse"}

\* The frame f just written to s is the frame of the operation that wrote it:
\* sendCurrentData ("current", the caller's state updated with the lists
\* drained), a bus handler ("updateTrigger", type and payload), or a direct
\* call of a pass-through emitter with its arguments.
WrittenBy(s, f) ==
    \/ \E t \in Threads :
          /\ pc[t] = "current_emit" /\ pc'[t] = "idle" /\ locals[t].self = s
          /\ DOMAIN f = {"current"}
          /\ \E data \in ExtraStates :
                f["current"] = Update(data, locals[t].temperatures, locals[t].logs,
                                      locals[t].messages)
    \/ \E t \in Threads :
          /\ pc[t] = "fire" /\ locals'[t] # locals[t]
          /\ DOMAIN f = {"updateTrigger"}
          /\ DOMAIN f["updateTrigger"] = {"type", "payload"}
          /\ f["updateTrigger"].type = TriggerType(locals[t].event)
          /\ f["updateTrigger"].payload \in Payloads
    \/ /\ emits' = emits + 1 /\ pc' = pc
       /\ \/ f = ("history" :> "history")
          \/ \E p \in Payloads :
                f = ("updateTrigger" :> [type |-> "gcodeFiles", payload |-> p])
          \/ f = ("feedbackCommandOutput" :> [name |-> "cmd", output |-> "out"])
          \/ f = ("timelapse" :> "current")

\* C15: every step that writes to a connection appends one object with
\* exactly one top-level key, one of the five tags, which is the tag of the
\* operation that wrote it and maps to that operation's payload; every
\* object on every connection has exactly one top-level key, one of the tags.
C15_OneTaggedKey ==
    [][\A s \in Sessions :
          /\ \A i \in 1..Len(wire'[s]) :
                Cardinality(DOMAIN wire'[s][i]) = 1 /\ DOMAIN wire'[s][i] \subseteq Tags
          /\ wire'[s] # wire[s] =>
                /\ Len(wire'[s]) = Len(wire[s]) + 1
                /\ SubSeq(wire'[s], 1, Len(wire[s])) = wire[s]
                /\ WrittenBy(s, wire'[s][Len(wire'[s])])]_vars

\* A connection on which frames of four different tags have been written,
\* one of them a "current" frame with a record.
C15_Witness ==
    \E s \in Sessions :
        /\ Cardinality({DOMAIN wire[s][i] : i \in 1..Len(wire[s])}) >= 4
        /\ \E i \in 1..Len(wire[s]) :
              IsCurrent(wire[s][i]) /\ wire[s][i]["current"]["logs"] # <<>>

\* C16: the step of addTemperature, addLog or addMessage on session s that
\* appends changes s's temperature, log or message backlog respectively, by
\* putting the record at its tail, and no other backlog of any session; the
\* step that enters the call changes no backlog; no step of sendCurrentData
\* on s changes a backlog of another session.
C16_OwnBuffers ==
    [][\A t \in Threads :
          LET s == locals[t].self
              data == locals[t].data
          IN /\ (pc[t] = "addTemperature" /\ pc'[t] = "idle") =>
                   /\ temperatureBacklog' =
                         [temperatureBacklog EXCEPT ![s] = Append(@, data)]
                   /\ UNCHANGED <<logBacklog, messageBacklog>>
             /\ (pc[t] = "addLog" /\ pc'[t] = "idle") =>
                   /\ logBacklog' = [logBacklog EXCEPT ![s] = Append(@, data)]
                   /\ UNCHANGED <<temperatureBacklog, messageBacklog>>
             /\ (pc[t] = "addMessage" /\ pc'[t] = "idle") =>
                   /\ messageBacklog' = [messageBacklog EXCEPT ![s] = Append(@, data)]
                   /\ UNCHANGED <<temperatureBacklog, logBacklog>>
             /\ (pc[t] = "idle" /\ pc'[t] # "idle") => UNCHANGED bufVars
             /\ (locals[t].fn = "sendCurrentData" /\ pc'[t] # pc[t]) =>
                   \A o \in Sessions \ {s} :
                      /\ temperatureBacklog'[o] = temperatureBacklog[o]
                      /\ logBacklog'[o] = logBacklog[o]
                      /\ messageBacklog'[o] = messageBacklog[o]]_vars

\* One session has flushed a record and has empty backlogs, the other still
\* holds the record appended to its message backlog, and only that one.
C16_Witness ==
    \E s, o \in Sessions :
        /\ s # o
        /\ \E i \in 1..Len(wire[s]) :
              IsCurrent(wire[s][i]) /\ wire[s][i]["current"]["temperatures"] # <<>>
        /\ \A cat \in Categories : Backlog(s, cat) = <<>>
        /\ Len(messageBacklog[o]) = 1
        /\ temperatureBacklog[o] = <<>> /\ logBacklog[o] = <<>>

\* The mutexes thread t holds.
Held(t) == {m \in Sessions \X Categories : Mutex(m[1], m[2]) = t}

\* The statements of sendCurrentData that come before the list of the
\* category has been taken out of its backlog.
BeforeDrain(cat) ==
    CASE cat = "temperatures" -> {"temperatures_swap"}
      [] cat = "logs" -> {"temperatures_swap", "logs_acquire", "logs_swap"}
      [] cat = "messages" -> {"temperatures_swap", "logs_acquire", "logs_swap",
                              "messages_acquire", "messages_swap"}

\* A sendCurrentData call on s has still to drain the backlog of cat.
FlushPending(s, cat) ==
    \E t \in Threads : /\ locals[t].fn = "sendCurrentData"
                        /\ locals[t].self = s
                        /\ pc[t] \in BeforeDrain(cat)

Written(s, cat) == {Delivered(wire[s], cat)[i] : i \in 1..Len(Delivered(wire[s], cat))}

InBacklog(s, cat) == {Backlog(s, cat)[i] : i \in 1..Len(Backlog(s, cat))}

Elems(seq) == {seq[i] : i \in 1..Len(seq)}

C19_OpenWritesOnlyToSelf ==
    [][\A t \in Threads :
          (pc[t] = "notifyCallbacks" /\ locals'[t] # locals[t]) =>
             wire' = [wire EXCEPT ![locals[t].self] =
                         Append(@, "timelapse" :> "current")]]_vars

\* C19 amended: the timelapse notification of the on_open of session s goes
\* to every session registered with the timelapse subsystem when it starts,
\* s among them: each step of it writes one "timelapse" frame with the
\* current configuration to one of these sessions not yet notified, and it
\* ends when all of them have been written to or a write has raised; no
\* other step of on_open or on_close writes to a connection.
C19_OpenNotifiesRegistered ==
    [][\A t \in Threads :
          LET s == locals[t].self
              pending == locals[t].pending
          IN /\ (pc[t] = "on_open" /\ pc'[t] = "notifyCallbacks") =>
                   /\ locals'[t].pending = callbacks["timelapse"]
                   /\ s \in locals'[t].pending
                   /\ wire' = wire
             /\ (pc[t] = "notifyCallbacks" /\ locals'[t] # locals[t]) =>
                   \E cb \in pending :
                      /\ wire' = [wire EXCEPT ![cb] =
                                     Append(@, "timelapse" :> "current")]
                      /\ pc'[t] = "notifyCallbacks" => locals'[t].pending = pending \ {cb}
                      /\ pc'[t] = "idle" => (pending = {cb} \/ raised'[t] = "send")
             /\ (pc[t] \in {"idle", "on_open", "on_close"} /\ locals'[t] # locals[t]) =>
                   wire' = wire]_vars

\* Two sessions opened one after the other, no call raising: the one opened
\* first has been written two "timelapse" frames, the other one.
C19_Witness ==
    \E s, o \in Sessions :
        /\ s # o
        /\ life[s] = "open" /\ life[o] = "open" /\ AllCallsOk(s) /\ AllCallsOk(o)
        /\ wire[o] = <<Frame("timelapse", "current"), Frame("timelapse", "current")>>
        /\ wire[s] = <<Frame("timelapse", "current")>>
        /\ \A t \in Threads : pc[t] = "idle" /\ raised[t] = ""

====
